---------------------------- MODULE Spec2Model ----------------------------
(***************************************************************************)
(* DevConnector API: the profile, post and github route handlers as a      *)
(* state machine over the document store.                                  *)
(*                                                                         *)
(* Every handler is an async function: it runs synchronously up to an      *)
(* `await`, the awaited store call takes effect atomically at the store,   *)
(* and the handler resumes with its result.  One action models one such    *)
(* resumption: the store call that completes together with the handler     *)
(* code up to the next await (or the response).  Requests run concurrently *)
(* in the slots 1..NumReq; the store is the only state they share.         *)
(***************************************************************************)
EXTENDS Integers, Sequences, FiniteSets, TLC

\* ------------------------------------------------------------------ bounds
\* Number of requests in one behaviour (each slot carries one request).
NumReq == 2

\* ------------------------------------------------------------- value sets
Slots == 1..NumReq

\* Identities a valid token can carry (req.user.id).
UserIds == {"u1", "u2"}

\* req.params.id that is no structurally valid ObjectId (CastError, kind ObjectId).
MalformedId == -1
\* A well-formed id that names no document.
AbsentId == 0

\* ------------------------------------------------------- array primitives
\* Array.prototype.unshift: insert at the front.
Unshift(s, x) == <<x>> \o s

\* Array.prototype.indexOf, 0-based, -1 when absent.
RECURSIVE IndexFrom(_, _, _)
IndexFrom(s, x, i) ==
  IF i > Len(s) THEN -1
  ELSE IF s[i] = x THEN i - 1
  ELSE IndexFrom(s, x, i + 1)

IndexOf(s, x) == IndexFrom(s, x, 1)

\* A splice that removes the element after the one asked for.
Splice_Next(s, i) ==
  IF i + 1 >= Len(s) THEN s
  ELSE [k \in 1..(Len(s) - 1) |-> IF k <= i + 1 THEN s[k] ELSE s[k + 1]]

\* Array.prototype.splice(i, 1) for a 0-based index i >= 0: drop that element
\* (nothing when i is past the end).
Splice(s, i) ==
  IF i >= Len(s) THEN s
  ELSE [k \in 1..(Len(s) - 1) |-> IF k <= i THEN s[k] ELSE s[k + 1]]

\* Array.prototype.map(f) for the two projections the handlers use.
MapId(s) == [k \in 1..Len(s) |-> s[k].id]
MapUser(s) == [k \in 1..Len(s) |-> s[k].user]

\* Array.prototype.filter(like => like.user === u).
RECURSIVE FilterUser(_, _)
FilterUser(s, u) ==
  IF s = <<>> THEN <<>>
  ELSE IF Head(s).user = u THEN <<Head(s)>> \o FilterUser(Tail(s), u)
  ELSE FilterUser(Tail(s), u)

\* --------------------------------------------------- skills string parsing
\* A string is a sequence of one-character strings.
RECURSIVE SplitFrom(_, _, _)
SplitFrom(s, sep, cur) ==
  IF s = <<>> THEN <<cur>>
  ELSE IF Head(s) = sep THEN <<cur>> \o SplitFrom(Tail(s), sep, <<>>)
  ELSE SplitFrom(Tail(s), sep, Append(cur, Head(s)))

\* String.prototype.split(sep).
Split(s, sep) == SplitFrom(s, sep, <<>>)

RECURSIVE TrimLeft(_)
TrimLeft(s) ==
  IF s # <<>> /\ Head(s) = " " THEN TrimLeft(Tail(s)) ELSE s

RECURSIVE TrimRight(_)
TrimRight(s) ==
  IF s # <<>> /\ s[Len(s)] = " " THEN TrimRight(SubSeq(s, 1, Len(s) - 1)) ELSE s

\* String.prototype.trim().
Trim(s) == TrimRight(TrimLeft(s))

\* skills.split(',').map(skill => skill.trim())
ParseSkills(s) == LET parts == Split(s, ",") IN [k \in 1..Len(parts) |-> Trim(parts[k])]

\* ------------------------------------------------------------------ state
VARIABLES
  users,     \* ids of the documents in the User collection
  profiles,  \* the Profile collection: a set of documents
  posts,     \* the Post collection: a set of documents
  nextId,    \* the next ObjectId the driver generates
  serverUp,  \* FALSE once an uncaught exception has ended the process
  req        \* per slot: the request and where its handler stands

vars == <<users, profiles, posts, nextId, serverUp, req>>


\* ------------------------------------------------------------- documents
TopKeys == {"company", "website", "location", "bio", "status", "githubusername"}
SocialKeys == {"youtube", "twitter", "facebook", "linkedin", "instagram"}

\* A field that is absent (undefined) or empty is "": both are falsy in the
\* handler's `if (field)` tests.
NoSocial ==
  [youtube |-> "", twitter |-> "", facebook |-> "", linkedin |-> "", instagram |-> ""]

\* "build profile object" / "build social object": a key whose value is "" or
\* <<>> here is a key the handler did not put into profileFields.
ProfileFields(u, b) ==
  [user |-> u,
   company |-> b.company, website |-> b.website, location |-> b.location,
   bio |-> b.bio, status |-> b.status, githubusername |-> b.githubusername,
   skills |-> IF b.skills # <<>> THEN ParseSkills(b.skills) ELSE <<>>,
   social |-> [youtube |-> b.youtube, twitter |-> b.twitter,
               facebook |-> b.facebook, linkedin |-> b.linkedin,
               instagram |-> b.instagram]]

\* new Profile(profileFields): the driver assigns _id at construction; the
\* arrays of the schema start empty.
NewProfile(id, pf) ==
  [id |-> id, user |-> pf.user,
   company |-> pf.company, website |-> pf.website, location |-> pf.location,
   bio |-> pf.bio, status |-> pf.status, githubusername |-> pf.githubusername,
   skills |-> pf.skills, social |-> pf.social,
   experience |-> <<>>, education |-> <<>>]

\* { $set: profileFields }: every key of profileFields replaces the stored
\* value of that key; `social` is one key, whose value is the object built by
\* the handler.
ApplySet(doc, pf) ==
  [doc EXCEPT
     !.user = pf.user,
     !.company = IF pf.company # "" THEN pf.company ELSE @,
     !.website = IF pf.website # "" THEN pf.website ELSE @,
     !.location = IF pf.location # "" THEN pf.location ELSE @,
     !.bio = IF pf.bio # "" THEN pf.bio ELSE @,
     !.status = IF pf.status # "" THEN pf.status ELSE @,
     !.githubusername = IF pf.githubusername # "" THEN pf.githubusername ELSE @,
     !.skills = IF pf.skills # <<>> THEN pf.skills ELSE @,
     !.social = pf.social]

\* -------------------------------------------------------- store queries
ProfilesOf(u) == {p \in profiles : p.user = u}

\* Profile.findOne({user: u}): <<>> for null, else the first match in
\* natural (insertion) order; ids grow with insertion.
FindProfile(u) ==
  IF ProfilesOf(u) = {} THEN <<>>
  ELSE <<CHOOSE p \in ProfilesOf(u) : \A q \in ProfilesOf(u) : p.id <= q.id>>

\* Post.findById(id): <<>> for null.
FindPost(id) ==
  IF \E p \in posts : p.id = id THEN <<CHOOSE p \in posts : p.id = id>> ELSE <<>>

PostsOf(u) == {p \in posts : p.user = u}

\* A collection without the rule: every insert is accepted.
OwnerUnique_Off(doc) == TRUE

\* The owner-uniqueness rule of the Profile collection: an insert is refused
\* when a profile of the same owner is stored.
OwnerUnique(doc) == ProfilesOf(doc.user) = {}

\* A write that merges instead of replacing: the array as held, followed by
\* the stored elements the held array lacks, so that no stored element is
\* ever dropped by a write.
MergeArray(held, stored) ==
  held \o SelectSeq(stored, LAMBDA e : \A i \in 1..Len(held) : held[i] # e)

SetArray_Merge(coll, doc, path) ==
  {IF d.id # doc.id THEN d
   ELSE IF path = "experience"
     THEN [d EXCEPT !.experience = MergeArray(doc.experience, @)]
   ELSE IF path = "education"
     THEN [d EXCEPT !.education = MergeArray(doc.education, @)]
   ELSE [d EXCEPT !.likes = MergeArray(doc.likes, @)] : d \in coll}

\* document.save() of a loaded document whose array `path` was modified:
\* the stored document with the same _id gets that array, whole; a document
\* no longer stored is not re-created.
SetArray(coll, doc, path) ==
  {IF d.id # doc.id THEN d
   ELSE IF path = "experience" THEN [d EXCEPT !.experience = doc.experience]
   ELSE IF path = "education" THEN [d EXCEPT !.education = doc.education]
   ELSE [d EXCEPT !.likes = doc.likes] : d \in coll}

GetArray(doc, path) ==
  IF path = "experience" THEN doc.experience ELSE doc.education

PutArray(doc, path, v) ==
  IF path = "experience" THEN [doc EXCEPT !.experience = v]
  ELSE [doc EXCEPT !.education = v]

\* --------------------------------------------------------------- requests
Idle ==
  [kind |-> "idle", user |-> "", target |-> AbsentId, input |-> <<>>,
   pc |-> "idle", doc |-> <<>>, status |-> 0, msg |-> "", err |-> ""]

\* Slots are taken in order: which slot carries a request is immaterial.
CanStart(r) ==
  /\ serverUp
  /\ req[r].pc = "idle"
  /\ \A q \in Slots : q < r => req[q].pc # "idle"

Begin(r, kind, u, target, input, pc) ==
  req' = [req EXCEPT ![r] = [Idle EXCEPT !.kind = kind, !.user = u,
                              !.target = target, !.input = input, !.pc = pc]]

\* res.status(st).json/send(...): the handler ends and the request is
\* dropped.  A slot that has answered 200 keeps what the handler held; an
\* error response carries the message alone.
Respond(r, st, m) ==
  req' = [req EXCEPT ![r].pc = "done", ![r].status = st, ![r].msg = m,
                     ![r].input = <<>>,
                     ![r].target = IF st = 200 THEN @ ELSE AbsentId,
                     ![r].doc = IF st = 200 THEN @ ELSE <<>>]

RespondDoc(r, st, m, d) ==
  req' = [req EXCEPT ![r].pc = "done", ![r].status = st, ![r].msg = m,
                     ![r].input = <<>>, ![r].doc = d]

\* catch (err) { console.error(err.message); res.status(500).send('Server Error') }
\* `err` is the kind of the error logged.
RespondError(r, e) ==
  req' = [req EXCEPT ![r] = [Idle EXCEPT !.kind = req[r].kind, !.pc = "done",
                              !.status = 500, !.msg = "Server Error", !.err = e]]

\* validationResult(req) is not empty: 400 with the error list.
Reject(r, kind) ==
  req' = [req EXCEPT ![r] = [Idle EXCEPT !.kind = kind, !.pc = "done",
                              !.status = 400, !.msg = "errors"]]

At(r, kind, pc) == serverUp /\ req[r].kind = kind /\ req[r].pc = pc

\* ------------------------------------------------------- request inputs
Body(status, skills, company, youtube, twitter) ==
  [company |-> company, website |-> "", location |-> "", bio |-> "",
   status |-> status, githubusername |-> "", skills |-> skills,
   youtube |-> youtube, facebook |-> "", twitter |-> twitter,
   instagram |-> "", linkedin |-> ""]

UpsertBodies ==
  { Body("dev", <<"j", "s", ",", " ", "c">>, "", "", "tw"),
    Body("sr", <<"g", "o">>, "acme", "yt2", ""),
    Body("", <<"j">>, "", "", "") }

ExperienceInputs ==
  { [title |-> "eng", company |-> "acme", from |-> "2019"],
    [title |-> "", company |-> "acme", from |-> "2019"] }

EducationInputs ==
  { [school |-> "mit", degree |-> "bs", fieldofstudy |-> "cs", from |-> "2015"],
    [school |-> "mit", degree |-> "", fieldofstudy |-> "cs", from |-> "2015"] }

PostTexts == {"", "hello"}

GithubUsernames == {"octocat"}

\* Response bodies of the upstream service, as strings.
GithubBodies ==
  { <<"[", "]">>, <<"[", "1", ",", "2", "]">>, <<"<", "h", ">">> }

\* ------------------------------------------------------------------- Init
\* A store the API has produced: both users registered, u1 with a profile
\* (one experience entry, a youtube link) and a post that u2 has liked; u2
\* has no profile.
Init ==
  /\ users = UserIds
  /\ profiles =
       { [id |-> 1, user |-> "u1", company |-> "c0", website |-> "", location |-> "",
          bio |-> "", status |-> "jr", githubusername |-> "",
          skills |-> << <<"c">> >>,
          social |-> [NoSocial EXCEPT !.youtube = "yt0"],
          experience |-> << [id |-> 2, title |-> "dev", company |-> "old", from |-> "2017"] >>,
          education |-> <<>>] }
  /\ posts =
       { [id |-> 3, user |-> "u1", name |-> "u1", text |-> "first",
          likes |-> << [user |-> "u2"] >>] }
  /\ nextId = 4
  /\ serverUp = TRUE
  /\ req = [r \in Slots |-> Idle]

\* ------------------------------------- POST api/profile (create or update)
StartUpsert(r) ==
  /\ CanStart(r)
  /\ \E u \in UserIds, b \in UpsertBodies :
       IF b.status = "" \/ b.skills = <<>>
       THEN Reject(r, "upsert")
       ELSE Begin(r, "upsert", u, AbsentId, <<b>>, "findOne")
  /\ UNCHANGED <<users, profiles, posts, nextId, serverUp>>

\* Profile.findOne resolves; the handler goes on to findOneAndUpdate, or
\* builds the new document and goes on to save it.
UpsertFindOne(r) ==
  /\ At(r, "upsert", "findOne")
  /\ LET found == FindProfile(req[r].user)
         pf == ProfileFields(req[r].user, req[r].input[1])
     IN IF found # <<>>
        THEN /\ req' = [req EXCEPT ![r].pc = "findOneAndUpdate", ![r].doc = found]
             /\ UNCHANGED nextId
        ELSE /\ req' = [req EXCEPT ![r].pc = "save",
                                   ![r].doc = <<NewProfile(nextId, pf)>>]
             /\ nextId' = nextId + 1
  /\ UNCHANGED <<users, profiles, posts, serverUp>>

\* Profile.findOneAndUpdate({user}, {$set: profileFields}, {new: true}):
\* the matching document updated, or null when none matches.
UpsertUpdate(r) ==
  /\ At(r, "upsert", "findOneAndUpdate")
  /\ LET found == FindProfile(req[r].user)
         pf == ProfileFields(req[r].user, req[r].input[1])
     IN IF found # <<>>
        THEN LET updated == ApplySet(found[1], pf)
             IN /\ profiles' = (profiles \ {found[1]}) \cup {updated}
                /\ RespondDoc(r, 200, "profile", <<updated>>)
        ELSE /\ UNCHANGED profiles
             /\ RespondDoc(r, 200, "profile", <<>>)
  /\ UNCHANGED <<users, posts, nextId, serverUp>>

\* profile.save() of the new document.
UpsertSave(r) ==
  /\ At(r, "upsert", "save")
  /\ IF OwnerUnique(req[r].doc[1])
     THEN /\ profiles' = profiles \cup {req[r].doc[1]}
          /\ Respond(r, 200, "profile")
     ELSE /\ UNCHANGED profiles
          /\ RespondError(r, "DuplicateKey")
  /\ UNCHANGED <<users, posts, nextId, serverUp>>

\* ------------------------------ DELETE api/profile (profile, user & posts)
StartDeleteAccount(r) ==
  /\ CanStart(r)
  /\ \E u \in UserIds : Begin(r, "deleteAccount", u, AbsentId, <<>>, "deleteMany")
  /\ UNCHANGED <<users, profiles, posts, nextId, serverUp>>

\* The user record removed first, the posts never.
DeleteAccountPosts_UserFirst(r) ==
  /\ At(r, "deleteAccount", "deleteMany")
  /\ users' = users \ {req[r].user}
  /\ req' = [req EXCEPT ![r].pc = "removeProfile"]
  /\ UNCHANGED <<profiles, posts, nextId, serverUp>>

\* Post.deleteMany({user})
DeleteAccountPosts(r) ==
  /\ At(r, "deleteAccount", "deleteMany")
  /\ posts' = posts \ PostsOf(req[r].user)
  /\ req' = [req EXCEPT ![r].pc = "removeProfile"]
  /\ UNCHANGED <<users, profiles, nextId, serverUp>>

\* Profile.findOneAndRemove({user})
DeleteAccountProfile(r) ==
  /\ At(r, "deleteAccount", "removeProfile")
  /\ profiles' = profiles \ {p \in profiles : <<p>> = FindProfile(req[r].user)}
  /\ req' = [req EXCEPT ![r].pc = "removeUser"]
  /\ UNCHANGED <<users, posts, nextId, serverUp>>

\* User.findOneAndRemove({_id})
DeleteAccountUser(r) ==
  /\ At(r, "deleteAccount", "removeUser")
  /\ users' = users \ {req[r].user}
  /\ Respond(r, 200, "User deleted")
  /\ UNCHANGED <<profiles, posts, nextId, serverUp>>

\* --------------------------- PUT api/profile/experience, .../education
StartAdd(r, kind, inputs) ==
  /\ CanStart(r)
  /\ \E u \in UserIds, e \in inputs :
       IF \E k \in DOMAIN e : e[k] = ""
       THEN Reject(r, kind)
       ELSE Begin(r, kind, u, AbsentId, <<e>>, "findOne")
  /\ UNCHANGED <<users, profiles, posts, nextId, serverUp>>

StartAddExperience(r) == StartAdd(r, "addExperience", ExperienceInputs)

StartAddEducation(r) == StartAdd(r, "addEducation", EducationInputs)

\* The sub-document the array casts the new entry to: the entry with an _id.
ExperienceEntry(id, e) ==
  [id |-> id, title |-> e.title, company |-> e.company, from |-> e.from]

EducationEntry(id, e) ==
  [id |-> id, school |-> e.school, degree |-> e.degree,
   fieldofstudy |-> e.fieldofstudy, from |-> e.from]

\* Profile.findOne resolves; profile.<path>.unshift(entry).  With no profile
\* the read of profile.<path> throws a TypeError, which the catch block
\* answers with 500.
AddFind(r, kind, path, entry) ==
  /\ At(r, kind, "findOne")
  /\ LET found == FindProfile(req[r].user)
     IN IF found = <<>>
        THEN /\ RespondError(r, "TypeError")
             /\ UNCHANGED nextId
        ELSE /\ req' = [req EXCEPT
                          ![r].pc = "save",
                          ![r].doc = <<PutArray(found[1], path,
                                         Unshift(GetArray(found[1], path), entry))>>]
             /\ nextId' = nextId + 1
  /\ UNCHANGED <<users, profiles, posts, serverUp>>

AddExperienceFind(r) ==
  AddFind(r, "addExperience", "experience", ExperienceEntry(nextId, req[r].input[1]))

AddEducationFind(r) ==
  AddFind(r, "addEducation", "education", EducationEntry(nextId, req[r].input[1]))

\* profile.save(), then res.json(profile)
SaveProfileArray(r, kind, path) ==
  /\ At(r, kind, "save")
  /\ profiles' = SetArray(profiles, req[r].doc[1], path)
  /\ Respond(r, 200, "profile")
  /\ UNCHANGED <<users, posts, nextId, serverUp>>

AddExperienceSave(r) == SaveProfileArray(r, "addExperience", "experience")

AddEducationSave(r) == SaveProfileArray(r, "addEducation", "education")

\* The entry ids a client can have seen: those of stored entries and those
\* of the profiles the handlers have answered with.
ProfileKinds ==
  {"upsert", "addExperience", "addEducation", "removeExperience", "removeEducation"}

AnsweredProfiles ==
  {req[q].doc[1] : q \in {x \in Slots : /\ req[x].kind \in ProfileKinds
                                        /\ req[x].pc = "done"
                                        /\ req[x].doc # <<>>}}

EntryIds ==
  UNION {{p.experience[k].id : k \in 1..Len(p.experience)}
           \cup {p.education[k].id : k \in 1..Len(p.education)}
         : p \in profiles \cup AnsweredProfiles}

\* ------------------ DELETE api/profile/experience/:exp_id, .../education/:edu_id
StartRemove(r, kind) ==
  /\ CanStart(r)
  /\ \E u \in UserIds, t \in {AbsentId} \cup EntryIds :
       Begin(r, kind, u, t, <<>>, "findOne")
  /\ UNCHANGED <<users, profiles, posts, nextId, serverUp>>

StartRemoveExperience(r) == StartRemove(r, "removeExperience")

StartRemoveEducation(r) == StartRemove(r, "removeEducation")

\* Profile.findOne resolves; removeIndex = map(item => item.id).indexOf(id);
\* splice and go on to save when removeIndex >= 0, else answer with the
\* profile as loaded.
RemoveFind(r, kind, path) ==
  /\ At(r, kind, "findOne")
  /\ LET found == FindProfile(req[r].user)
     IN IF found = <<>>
        THEN RespondError(r, "TypeError")
        ELSE LET arr == GetArray(found[1], path)
                 removeIndex == IndexOf(MapId(arr), req[r].target)
             IN IF removeIndex >= 0
                THEN req' = [req EXCEPT
                               ![r].pc = "save",
                               ![r].doc = <<PutArray(found[1], path,
                                              Splice(arr, removeIndex))>>]
                ELSE RespondDoc(r, 200, "profile", found)
  /\ UNCHANGED <<users, profiles, posts, nextId, serverUp>>

RemoveExperienceFind(r) == RemoveFind(r, "removeExperience", "experience")

RemoveEducationFind(r) == RemoveFind(r, "removeEducation", "education")

RemoveExperienceSave(r) == SaveProfileArray(r, "removeExperience", "experience")

RemoveEducationSave(r) == SaveProfileArray(r, "removeEducation", "education")

\* ------------------------------------------------------- POST api/posts
StartCreatePost(r) ==
  /\ CanStart(r)
  /\ \E u \in UserIds, text \in PostTexts :
       IF text = ""
       THEN Reject(r, "createPost")
       ELSE Begin(r, "createPost", u, AbsentId, <<[text |-> text]>>, "findUser")
  /\ UNCHANGED <<users, profiles, posts, nextId, serverUp>>

\* User.findById resolves; new Post({text, name: user.name, avatar, user}).
\* With no such user the read of user.name throws a TypeError (500).
CreatePostFindUser(r) ==
  /\ At(r, "createPost", "findUser")
  /\ IF req[r].user \notin users
     THEN /\ RespondError(r, "TypeError")
          /\ UNCHANGED nextId
     ELSE /\ req' = [req EXCEPT
                       ![r].pc = "save",
                       ![r].doc = <<[id |-> nextId, user |-> req[r].user,
                                     name |-> req[r].user,
                                     text |-> req[r].input[1].text,
                                     likes |-> <<>>]>>]
          /\ nextId' = nextId + 1
  /\ UNCHANGED <<users, profiles, posts, serverUp>>

\* newPost.save()
CreatePostSave(r) ==
  /\ At(r, "createPost", "save")
  /\ posts' = posts \cup {req[r].doc[1]}
  /\ Respond(r, 200, "post")
  /\ UNCHANGED <<users, profiles, nextId, serverUp>>

\* The ids a request can name: a malformed one and those of the stored posts
\* (a post deleted before the handler's findById is the absent case).
PostTargets == {MalformedId} \cup {p.id : p \in posts}

StartPostRequest(r, kind) ==
  /\ CanStart(r)
  /\ \E u \in UserIds, t \in PostTargets : Begin(r, kind, u, t, <<>>, "findById")
  /\ UNCHANGED <<users, profiles, posts, nextId, serverUp>>

\* ------------------------------------------------- DELETE api/posts/:id
StartDeletePost(r) == StartPostRequest(r, "deletePost")

\* The handler without its owner check.
DeletePostFind_AnyCaller(r) ==
  /\ At(r, "deletePost", "findById")
  /\ LET post == FindPost(req[r].target)
     IN IF req[r].target = MalformedId \/ post = <<>>
        THEN Respond(r, 404, "Post not found")
        ELSE req' = [req EXCEPT ![r].pc = "remove", ![r].doc = post]
  /\ UNCHANGED <<users, profiles, posts, nextId, serverUp>>

\* Post.findById resolves (a malformed id rejects with kind ObjectId: 404);
\* the owner check.
DeletePostFind(r) ==
  /\ At(r, "deletePost", "findById")
  /\ LET post == FindPost(req[r].target)
     IN IF req[r].target = MalformedId \/ post = <<>>
        THEN Respond(r, 404, "Post not found")
        ELSE IF post[1].user # req[r].user
        THEN Respond(r, 401, "User not authorized")
        ELSE req' = [req EXCEPT ![r].pc = "remove", ![r].doc = post]
  /\ UNCHANGED <<users, profiles, posts, nextId, serverUp>>

\* post.remove()
DeletePostRemove(r) ==
  /\ At(r, "deletePost", "remove")
  /\ posts' = {p \in posts : p.id # req[r].doc[1].id}
  /\ Respond(r, 200, "Post removed")
  /\ UNCHANGED <<users, profiles, nextId, serverUp>>

\* ----------------------------------------------- PUT api/posts/like/:id
StartLike(r) == StartPostRequest(r, "like")

\* The check left out.
AlreadyLiked_Never(post, u) == FALSE

\* post.likes.filter(like => like.user.toString() === req.user.id).length > 0
AlreadyLiked(post, u) == Len(FilterUser(post.likes, u)) > 0

\* Post.findById resolves; the already-liked check; likes.unshift({user}).
LikeFind(r) ==
  /\ At(r, "like", "findById")
  /\ LET post == FindPost(req[r].target)
     IN IF req[r].target = MalformedId \/ post = <<>>
        THEN Respond(r, 404, "Post not found")
        ELSE IF AlreadyLiked(post[1], req[r].user)
        THEN Respond(r, 400, "Post already liked")
        ELSE req' = [req EXCEPT
                       ![r].pc = "save",
                       ![r].doc = <<[post[1] EXCEPT
                                       !.likes = Unshift(@, [user |-> req[r].user])]>>]
  /\ UNCHANGED <<users, profiles, posts, nextId, serverUp>>

\* post.save(), then res.json(post.likes)
SaveLikes(r, kind) ==
  /\ At(r, kind, "save")
  /\ posts' = SetArray(posts, req[r].doc[1], "likes")
  /\ Respond(r, 200, "likes")
  /\ UNCHANGED <<users, profiles, nextId, serverUp>>

LikeSave(r) == SaveLikes(r, "like")

\* --------------------------------------------- PUT api/posts/unlike/:id
StartUnlike(r) == StartPostRequest(r, "unlike")

\* A 1-based index taken for a 0-based one.
RemoveIndex_OneBased(post, u) == IndexOf(MapUser(post.likes), u) + 1

\* post.likes.map(like => like.user.toString()).indexOf(req.user.id)
RemoveIndex(post, u) == IndexOf(MapUser(post.likes), u)

\* Post.findById resolves; splice when removeIndex >= 0, else 400.
UnlikeFind(r) ==
  /\ At(r, "unlike", "findById")
  /\ LET post == FindPost(req[r].target)
     IN IF req[r].target = MalformedId \/ post = <<>>
        THEN Respond(r, 404, "Post not found")
        ELSE IF RemoveIndex(post[1], req[r].user) >= 0
        THEN req' = [req EXCEPT
                       ![r].pc = "save",
                       ![r].doc = <<[post[1] EXCEPT
                                       !.likes = Splice(@, RemoveIndex(post[1], req[r].user))]>>]
        ELSE Respond(r, 400, "Post has not yet been liked")
  /\ UNCHANGED <<users, profiles, posts, nextId, serverUp>>

UnlikeSave(r) == SaveLikes(r, "unlike")

\* ------------------------------------ GET api/profile/github/:username
StartGithub(r) ==
  /\ CanStart(r)
  /\ \E name \in GithubUsernames :
       Begin(r, "github", "", AbsentId, <<[username |-> name]>>, "request")
  /\ UNCHANGED <<users, profiles, posts, nextId, serverUp>>

Digits == {"0", "1", "2", "3", "4", "5", "6", "7", "8", "9"}

DigitValue(c) ==
  CASE c = "0" -> 0 [] c = "1" -> 1 [] c = "2" -> 2 [] c = "3" -> 3 [] c = "4" -> 4
    [] c = "5" -> 5 [] c = "6" -> 6 [] c = "7" -> 7 [] c = "8" -> 8 [] c = "9" -> 9

\* The JSON texts of the model: an array of one-digit numbers.
JSONInner(b) == SubSeq(b, 2, Len(b) - 1)

JSONValid(b) ==
  /\ Len(b) >= 2
  /\ b[1] = "[" /\ b[Len(b)] = "]"
  /\ LET inner == JSONInner(b)
     IN \/ inner = <<>>
        \/ /\ Len(inner) % 2 = 1
           /\ \A k \in 1..Len(inner) :
                IF k % 2 = 1 THEN inner[k] \in Digits ELSE inner[k] = ","

\* JSON.parse(body) of a valid text.
JSONParse(b) ==
  LET inner == JSONInner(b)
  IN [k \in 1..((Len(inner) + 1) \div 2) |-> DigitValue(inner[2 * k - 1])]

\* The upstream outcomes: a transport error (error set, response undefined),
\* or a response with a status code and a body.
GithubOutcomes ==
  {[error |-> TRUE, statusCode |-> 0, body |-> <<>>]}
    \cup {[error |-> FALSE, statusCode |-> 404, body |-> <<"{", "}">>]}
    \cup {[error |-> FALSE, statusCode |-> 200, body |-> b] : b \in GithubBodies}

\* The callback of request(options, ...).  It runs outside the handler's
\* try block: an exception it throws (the read of response.statusCode with
\* response undefined, a SyntaxError of JSON.parse) is uncaught, no response
\* is sent and the process ends.
GithubCallback(r) ==
  /\ At(r, "github", "request")
  /\ \E o \in GithubOutcomes :
       IF o.error
       THEN /\ req' = [req EXCEPT ![r].pc = "crashed", ![r].err = "TypeError"]
            /\ serverUp' = FALSE
       ELSE IF o.statusCode # 200
       THEN /\ Respond(r, 404, "No github profile found")
            /\ UNCHANGED serverUp
       ELSE IF JSONValid(o.body)
       THEN /\ RespondDoc(r, 200, "repos", JSONParse(o.body))
            /\ UNCHANGED serverUp
       ELSE /\ req' = [req EXCEPT ![r].pc = "crashed", ![r].err = "SyntaxError"]
            /\ serverUp' = FALSE
  /\ UNCHANGED <<users, profiles, posts, nextId>>

\* --------------------------------------------------- store call failures
StoreCalls ==
  {"findOne", "findOneAndUpdate", "save", "deleteMany", "removeProfile",
   "removeUser", "findUser", "findById", "remove"}

\* An awaited store call rejects (connection lost, write refused): the
\* handler's catch block answers 500 and the later calls are not made.
StoreFail(r) ==
  /\ serverUp
  /\ req[r].pc \in StoreCalls
  /\ RespondError(r, "StoreError")
  /\ UNCHANGED <<users, profiles, posts, nextId, serverUp>>

\* ------------------------------------------------------------------- Next
Next ==
  \E r \in Slots :
    \/ StartUpsert(r) \/ UpsertFindOne(r) \/ UpsertUpdate(r) \/ UpsertSave(r)
    \/ StartDeleteAccount(r) \/ DeleteAccountPosts(r)
    \/ DeleteAccountProfile(r) \/ DeleteAccountUser(r)
    \/ StartAddExperience(r) \/ AddExperienceFind(r) \/ AddExperienceSave(r)
    \/ StartAddEducation(r) \/ AddEducationFind(r) \/ AddEducationSave(r)
    \/ StartRemoveExperience(r) \/ RemoveExperienceFind(r) \/ RemoveExperienceSave(r)
    \/ StartRemoveEducation(r) \/ RemoveEducationFind(r) \/ RemoveEducationSave(r)
    \/ StartCreatePost(r) \/ CreatePostFindUser(r) \/ CreatePostSave(r)
    \/ StartDeletePost(r) \/ DeletePostFind(r) \/ DeletePostRemove(r)
    \/ StartLike(r) \/ LikeFind(r) \/ LikeSave(r)
    \/ StartUnlike(r) \/ UnlikeFind(r) \/ UnlikeSave(r)
    \/ StartGithub(r) \/ GithubCallback(r)
    \/ StoreFail(r)

Spec == Init /\ [][Next]_vars

\* ================================================================= claims
\* Requests a property speaks of.
Answered(r, kind, st) ==
  req[r].kind = kind /\ req[r].pc = "done" /\ req[r].status = st

\* u occurs in the likes of post p.
Liked(p, u) == \E k \in 1..Len(p.likes) : p.likes[k].user = u

\* How often u occurs in the likes of post p.
LikeCount(p, u) == Cardinality({k \in 1..Len(p.likes) : p.likes[k].user = u})

\* Slot r takes a handler step that is not a failed store call.
Steps(r) == req'[r] # req[r] /\ req'[r].err # "StoreError"

\* ------------------------------------------------------------------- C1
\* C1: upsert is atomic per owner.  No user ever owns two stored profiles,
\* also when two upserts of the same owner both find no profile and both go
\* on to create one; and once an upsert of a user has answered 200 (no
\* account deletion being among the requests) that user owns exactly one.
C1_OneProfilePerOwner ==
  \A u \in UserIds :
    /\ Cardinality(ProfilesOf(u)) <= 1
    /\ ( /\ \E r \in Slots : Answered(r, "upsert", 200) /\ req[r].user = u
         /\ \A q \in Slots : req[q].kind # "deleteAccount" )
       => Cardinality(ProfilesOf(u)) = 1

\* Two upserts of one owner interleaved their find and create steps: one
\* created the profile, the other's insert was refused.
C1_Witness ==
  \E r, q \in Slots :
    /\ r # q
    /\ Answered(r, "upsert", 200)
    /\ req[q].kind = "upsert" /\ req[q].err = "DuplicateKey"
    /\ Cardinality(ProfilesOf(req[r].user)) = 1

\* ------------------------------------------------------------------- C2
\* C2: in every reachable state a user id occurs at most once in the likes
\* of a post, whatever like and unlike requests ran and however their load
\* and save steps interleaved.
C2_LikesDistinct ==
  \A p \in posts : \A u \in UserIds : LikeCount(p, u) <= 1

\* Two likes of one post by one user both loaded the post before either
\* saved, and both answered 200.
C2_Witness ==
  \E r, q \in Slots :
    /\ r # q
    /\ Answered(r, "like", 200) /\ Answered(q, "like", 200)
    /\ req[r].user = req[q].user /\ req[r].target = req[q].target
    /\ \E p \in posts : p.id = req[r].target /\ LikeCount(p, req[r].user) = 1

\* ------------------------------------------------------------------- C3
\* No request that creates a post or a profile for u is among the requests
\* (a creator that was rejected or failed wrote nothing).
NoCreator(u) ==
  \A q \in Slots : ~(req[q].kind \in {"createPost", "upsert"} /\ req[q].user = u)

Owns(u) == PostsOf(u) # {} \/ ProfilesOf(u) # {}

\* C3: account deletion removes posts, then profile, then user.  In every
\* state of the request, also after a store call of it failed, the user
\* record is stored whenever a post or the profile of that user is; the
\* posts are gone once the profile is being removed, posts and profile once
\* the user is; after a 200 all three are gone.
C3_CascadeOrder ==
  \A u \in UserIds :
    NoCreator(u) =>
      /\ u \notin users => ~Owns(u)
      /\ \A r \in Slots :
           (req[r].kind = "deleteAccount" /\ req[r].user = u) =>
             /\ req[r].pc = "removeProfile" => PostsOf(u) = {}
             /\ req[r].pc = "removeUser" => ~Owns(u)
             /\ Answered(r, "deleteAccount", 200) => (u \notin users /\ ~Owns(u))

\* The only request is an account deletion of u1 that was aborted by a
\* failed store call after the posts were removed: the profile and the user
\* are still stored.
C3_Witness ==
  /\ req[1].kind = "deleteAccount" /\ req[1].err = "StoreError"
  /\ \A q \in Slots \ {1} : req[q].pc = "idle"
  /\ PostsOf("u1") = {} /\ ProfilesOf("u1") # {} /\ "u1" \in users

\* ------------------------------------------------------------------- C4
\* C4: a rejected like or unlike changes nothing.  A like whose post, as
\* loaded, holds the caller answers 400 "Post already liked"; an unlike whose
\* post does not hold the caller answers 400 "Post has not yet been liked";
\* in both steps the Post collection stays as it is.
C4_RejectedLikeUnchanged ==
  [][\A r \in Slots : \A p \in posts :
       ( /\ req[r].pc = "findById" /\ Steps(r) /\ p.id = req[r].target
         /\ \/ req[r].kind = "like" /\ Liked(p, req[r].user)
            \/ req[r].kind = "unlike" /\ ~Liked(p, req[r].user) )
       => /\ req'[r].pc = "done" /\ req'[r].status = 400
          /\ req'[r].msg = IF req[r].kind = "like" THEN "Post already liked"
                           ELSE "Post has not yet been liked"
          /\ posts' = posts]_vars

\* A like was rejected as already liked and an unlike as not yet liked.
C4_Witness ==
  \E r, q \in Slots :
    /\ Answered(r, "like", 400) /\ req[r].msg = "Post already liked"
    /\ Answered(q, "unlike", 400) /\ req[q].msg = "Post has not yet been liked"

\* ------------------------------------------------------------------- C5
\* C5: deleting a post of another user answers 401 and leaves the Post
\* collection as it is; and whenever a post leaves the collection, the step
\* is one of a delete request of the post's owner.
C5_OnlyOwnerDeletes ==
  [][ /\ \A r \in Slots : \A p \in posts :
           ( /\ req[r].kind = "deletePost" /\ req[r].pc = "findById" /\ Steps(r)
             /\ p.id = req[r].target /\ p.user # req[r].user )
           => /\ req'[r].pc = "done" /\ req'[r].status = 401
              /\ req'[r].msg = "User not authorized"
              /\ posts' = posts
      /\ \A p \in posts :
           (\A q \in posts' : q.id # p.id)
           => \E r \in Slots :
                /\ req[r].kind \in {"deletePost", "deleteAccount"}
                /\ req[r].user = p.user
                /\ req'[r] # req[r] ]_vars

\* u2 asked to delete the post of u1: 401, and the post is still stored.
C5_Witness ==
  \E r \in Slots :
    /\ Answered(r, "deletePost", 401) /\ req[r].user = "u2"
    /\ \E p \in posts : p.id = 3 /\ p.user = "u1"

\* ------------------------------------------------------------------- C6
\* C6: addExperience and addEducation with a valid entry, for a user without
\* a profile, answer not-found (400 or 404, not 500) and create no profile.
C6_AddWithoutProfileNotFound ==
  [][\A r \in Slots :
       ( /\ req[r].kind \in {"addExperience", "addEducation"}
         /\ req[r].pc = "findOne" /\ Steps(r)
         /\ ProfilesOf(req[r].user) = {} )
       => /\ req'[r].pc = "done" /\ req'[r].status \in {400, 404}
          /\ profiles' = profiles]_vars

\* ------------------------------------------------------------------- C7
\* C7: an upsert of an existing profile is a partial merge: every top-level
\* field the request does not supply keeps its stored value, so does each of
\* the five social fields it does not supply, and experience and education
\* stay as they are.
C7_PartialMerge ==
  [][\A r \in Slots :
       ( /\ req[r].kind = "upsert" /\ req[r].pc = "findOneAndUpdate" /\ Steps(r)
         /\ ProfilesOf(req[r].user) # {} )
       => LET old == FindProfile(req[r].user)[1]
              b == req[r].input[1]
          IN \E new \in profiles' :
               /\ new.id = old.id
               /\ \A k \in TopKeys : b[k] = "" => new[k] = old[k]
               /\ \A k \in SocialKeys : b[k] = "" => new.social[k] = old.social[k]
               /\ new.experience = old.experience
               /\ new.education = old.education]_vars

\* ------------------------------------------------------------------- C8
ArrayPaths == {"experience", "education"}
AddKind(path) == IF path = "experience" THEN "addExperience" ELSE "addEducation"
RemoveKind(path) == IF path = "experience" THEN "removeExperience" ELSE "removeEducation"
EntryIdsOf(arr) == {arr[k].id : k \in 1..Len(arr)}

\* C8: add then remove gives the prior sequence back.  An add that loads the
\* profile holds the stored sequence with one new entry, of an id no stored
\* entry has, in front; a save stores the sequence the handler holds; and a
\* remove, by the id of the entry an add has put in front, that loads the
\* sequence the add stored holds, and then stores, the add's sequence
\* without its first entry: the prior entries in their prior order.
C8_AddThenRemove ==
  [][\A path \in ArrayPaths : \A d \in Slots :
       /\ ( /\ req[d].kind = AddKind(path) /\ req[d].pc = "findOne" /\ Steps(d)
            /\ ProfilesOf(req[d].user) # {} )
          => LET prior == GetArray(FindProfile(req[d].user)[1], path)
                 held == GetArray(req'[d].doc[1], path)
             IN /\ req'[d].pc = "save"
                /\ Len(held) = Len(prior) + 1
                /\ Tail(held) = prior
                /\ Head(held).id \notin EntryIdsOf(prior)
       /\ ( /\ req[d].kind \in {AddKind(path), RemoveKind(path)}
            /\ req[d].pc = "save" /\ Steps(d) )
          => /\ req'[d].status = 200
             /\ \A p \in profiles' :
                  p.id = req[d].doc[1].id
                    => GetArray(p, path) = GetArray(req[d].doc[1], path)
       /\ \A a \in Slots :
            ( /\ Answered(a, AddKind(path), 200)
              /\ req[d].kind = RemoveKind(path) /\ req[d].user = req[a].user
              /\ req[d].pc = "findOne" /\ Steps(d)
              /\ ProfilesOf(req[d].user) # {}
              /\ GetArray(FindProfile(req[d].user)[1], path) = GetArray(req[a].doc[1], path)
              /\ req[d].target = Head(GetArray(req[a].doc[1], path)).id )
            => /\ req'[d].pc = "save"
               /\ GetArray(req'[d].doc[1], path) = Tail(GetArray(req[a].doc[1], path))]_vars

\* An experience entry was added in front of the stored one and then removed
\* by its id: the stored sequence is the prior one again.
C8_Witness ==
  \E a, d \in Slots :
    /\ Answered(a, "addExperience", 200) /\ Answered(d, "removeExperience", 200)
    /\ req[a].user = req[d].user
    /\ Len(req[a].doc[1].experience) = 2
    /\ req[d].target = Head(req[a].doc[1].experience).id
    /\ \E p \in ProfilesOf(req[a].user) :
         /\ p.experience = Tail(req[a].doc[1].experience)
         /\ p.experience = req[d].doc[1].experience

\* ------------------------------------------------------------------- C9
\* C9: a github request ends with exactly one response: 404 on a non-success
\* upstream status, an error response on a transport error, else 200 with
\* the parsed payload (a payload that parses).
C9_GithubAlwaysAnswers ==
  [][\A r \in Slots :
       ( /\ req[r].kind = "github" /\ req[r].pc = "request"
         /\ req'[r] # req[r] /\ req'[r].err # "SyntaxError" )
       => /\ req'[r].pc = "done"
          /\ req'[r].status \in {200, 404, 500}]_vars

\* ------------------------------------------------------------------ C10
\* The id of the entry an answered addExperience put in front.
NewEntryId(a) == Head(req[a].doc[1].experience).id

\* Two answered addExperience requests of one owner neither of which loaded
\* the other's entry.
Raced(a, b) ==
  /\ a # b
  /\ Answered(a, "addExperience", 200) /\ Answered(b, "addExperience", 200)
  /\ req[a].user = req[b].user
  /\ NewEntryId(a) \notin EntryIdsOf(req[b].doc[1].experience)
  /\ NewEntryId(b) \notin EntryIdsOf(req[a].doc[1].experience)

AllAnswered == \A r \in Slots : req[r].pc \in {"idle", "done"}

\* C11: when an account deletion of a user runs concurrently with a post
\* creation or a profile upsert of the same user, then once all requests
\* have been answered, a user whose record the deletion has removed owns no
\* stored post and no stored profile.
C11_NoDanglingOwner ==
  \A u \in UserIds :
    ( /\ AllAnswered
      /\ \E d \in Slots : Answered(d, "deleteAccount", 200) /\ req[d].user = u
      /\ u \notin users )
    => ~Owns(u)
=============================================================================
